---- MODULE Spec2Model ----
(***************************************************************************)
(* Brand Guardian: the two-node audit pipeline.                            *)
(*                                                                         *)
(*   audit_video (api/server.py) builds the initial state and invokes the  *)
(*   compiled graph (graph/workflow.py): indexer -> auditor -> END.        *)
(*   index_video_node (graph/nodes.py) drives VideoIndexerService          *)
(*   (services/video_indexer.py): construct, download, upload, remove the  *)
(*   local file, poll until a terminal state, extract_data.                *)
(*   audio_content_node (graph/nodes.py) short-circuits on an empty        *)
(*   transcript, otherwise queries the vector store, invokes the language  *)
(*   model once and parses its answer.                                     *)
(*                                                                         *)
(* The answer of the language model is modelled as Python holds a str: a   *)
(* sequence of code points.  All other text is modelled by TLA+ strings.   *)
(***************************************************************************)
EXTENDS Integers, Sequences, FiniteSets, TLC

VARIABLES
    pc,             \* position of the run: which step executes next
    state,          \* the VideoAuditState dict threaded through the graph
    localFile,      \* content of temp_audit_video.mp4 on disk, or "absent"
    service,        \* VideoIndexerService instance: [vi_token]
    azure_video_id, \* id returned by upload_video, "" before
    pollLog,        \* the job service's answers to the status requests so far
    sleeps,         \* number of time.sleep(30) calls made by wait_for_processing
    raw_insights,   \* payload returned by wait_for_processing
    calls,          \* number of calls made to each external collaborator
    failed_call,    \* the external call that failed during the run, "" if none
    after_indexer,  \* the state as merged after index_video_node returned
    entered,        \* the graph nodes entered so far, in order
    llm_doc,        \* the document the language model answered with
    llm_wrap,       \* the text the model put around that document
    llm_content,    \* response.content
    outcome,        \* how compliance_graph.invoke ended
    response,       \* what audit_video hands back to the HTTP layer
    uploaded,       \* content of the file this run sent to upload_video, "" before
    other_pc,       \* position of another run of index_video_node, "idle" if none
    other_uploaded  \* content of the file that other run uploaded, "" before

vars == <<pc, state, localFile, service, azure_video_id, pollLog, sleeps,
          raw_insights, calls, failed_call, after_indexer, entered,
          llm_doc, llm_wrap, llm_content, outcome, response,
          uploaded, other_pc, other_uploaded>>

(***************************************************************************)
(* Bounds                                                                  *)
(***************************************************************************)
\* Largest number of status requests one run may issue in the model.
MaxPolls == 3

(***************************************************************************)
(* Strings                                                                 *)
(***************************************************************************)
\* The code point of the backtick.
TICK == 96

\* s[i .. i+Len(t)-1] == t
At(s, i, t) ==
    /\ i >= 1
    /\ i + Len(t) - 1 <= Len(s)
    /\ SubSeq(s, i, i + Len(t) - 1) = t

\* Python: t in s
Contains(s, t) == \E i \in 1..(Len(s) + 1) : At(s, i, t)

\* The printable ASCII characters U+0020 to U+005F and U+0061 to U+007E.
AsciiLow == " !\"#$%&'()*+,-./0123456789:;<=>?@ABCDEFGHIJKLMNOPQRSTUVWXYZ[\\]^_"
AsciiHigh == "abcdefghijklmnopqrstuvwxyz{|}~"

\* Python: ord(c), for the line feed and the printable ASCII characters.
Ord(c) ==
    IF c = "\n" THEN 10
    ELSE IF \E i \in 1..Len(AsciiLow) : SubSeq(AsciiLow, i, i) = c
         THEN 31 + (CHOOSE i \in 1..Len(AsciiLow) : SubSeq(AsciiLow, i, i) = c)
    ELSE 96 + (CHOOSE i \in 1..Len(AsciiHigh) : SubSeq(AsciiHigh, i, i) = c)

\* Python: [ord(c) for c in s]
Codes(s) == [i \in 1..Len(s) |-> Ord(SubSeq(s, i, i))]

\* The code points Python's str.isspace() holds for, which str.strip()
\* removes: U+0009 to U+000D, U+001C to U+0020, U+0085, U+00A0, U+1680,
\* U+2000 to U+200A, U+2028, U+2029, U+202F, U+205F and U+3000.
Whitespace ==
    (9..13) \cup (28..32) \cup {133, 160, 5760} \cup (8192..8202)
        \cup {8232, 8233, 8239, 8287, 12288}

IsSpace(s, i) == s[i] \in Whitespace

\* Python: s.strip(), s a sequence of code points
Strip(s) ==
    LET nonblank == {i \in 1..Len(s) : ~IsSpace(s, i)}
    IN  IF nonblank = {} THEN <<>>
        ELSE LET lo == CHOOSE i \in nonblank : \A j \in nonblank : i <= j
                 hi == CHOOSE i \in nonblank : \A j \in nonblank : j <= i
             IN  SubSeq(s, lo, hi)

RECURSIVE JoinFrom(_, _, _)
JoinFrom(parts, sep, i) ==
    IF i > Len(parts) THEN ""
    ELSE IF i = Len(parts) THEN parts[i]
    ELSE parts[i] \o sep \o JoinFrom(parts, sep, i + 1)

\* Python: sep.join(parts)
Join(sep, parts) == JoinFrom(parts, sep, 1)

\* Python: d.get(k, default)
Get(d, k, default) == IF k \in DOMAIN d THEN d[k] ELSE default

EmptyDict == [k \in {} |-> ""]

(***************************************************************************)
(* The language model's answer: JSON documents and their text              *)
(***************************************************************************)
Q == "\""

\* One ComplianceIssue as the prompt of audio_content_node asks for it.
SampleIssue ==
    [category |-> "Claim Validation", severity |-> "CRITICAL",
     description |-> "Unverified claim"]

\* An optional value is a sequence of length 0 (key absent) or 1.
StatusOptions == {<<>>, <<"PASS">>, <<"FAIL">>, <<"REVIEW">>}
ResultsOptions == {<<>>, << <<>> >>, << <<SampleIssue>> >>}
ReportOptions == {<<>>, <<"ok">>}

\* The dict with the keys whose option is present.
MakeObject(cr, st, fr) ==
    [k \in ((IF cr = <<>> THEN {} ELSE {"compliance_results"})
            \cup (IF st = <<>> THEN {} ELSE {"status"})
            \cup (IF fr = <<>> THEN {} ELSE {"final_report"})) |->
        IF k = "compliance_results" THEN cr[1]
        ELSE IF k = "status" THEN st[1]
        ELSE fr[1]]

\* The JSON objects a response may hold.
JsonObjects ==
    {MakeObject(cr, st, fr) :
        cr \in ResultsOptions, st \in StatusOptions, fr \in ReportOptions}

JsonString(s) == Q \o s \o Q

IssueJson(i) ==
    "{" \o JsonString("category") \o ":" \o JsonString(i.category) \o ","
        \o JsonString("severity") \o ":" \o JsonString(i.severity) \o ","
        \o JsonString("description") \o ":" \o JsonString(i.description) \o "}"

IssuesJson(issues) ==
    "[" \o Join(",", [n \in 1..Len(issues) |-> IssueJson(issues[n])]) \o "]"

\* The compact JSON text of an object, keys in the order of the prompt.
Dumps(obj) ==
    LET cr == IF "compliance_results" \in DOMAIN obj
              THEN <<JsonString("compliance_results") \o ":"
                        \o IssuesJson(obj["compliance_results"])>>
              ELSE <<>>
        st == IF "status" \in DOMAIN obj
              THEN <<JsonString("status") \o ":" \o JsonString(obj["status"])>>
              ELSE <<>>
        fr == IF "final_report" \in DOMAIN obj
              THEN <<JsonString("final_report") \o ":"
                        \o JsonString(obj["final_report"])>>
              ELSE <<>>
    IN  "{" \o Join(",", cr \o st \o fr) \o "}"

\* Texts that are JSON but no object, and texts that are no JSON at all.
NonObjectJsonTexts == {"1", "[]"}
NonJsonTexts == {"", "I cannot help with that."}

\* What the model answers with: a JSON object, or some other text.
Docs ==
    {[kind |-> "object", obj |-> o, text |-> Codes(Dumps(o))] : o \in JsonObjects}
    \cup {[kind |-> "other", obj |-> EmptyDict, text |-> Codes(t)] :
            t \in NonObjectJsonTexts \cup NonJsonTexts}

FENCE == <<TICK, TICK, TICK>>
JSON_TAG == Codes("json")
LF == Codes("\n")

\* What the model puts before and after the document, as code points.  The
\* padded wraps hold every kind of white space str.strip() removes.
Wraps ==
    { [name |-> "plain",        pre |-> <<>>,                   post |-> <<>>],
      [name |-> "padded",       pre |-> <<11, 5760, 32, 10>>,   post |-> <<12, 28, 8192, 9, 13, 10>>],
      [name |-> "padded_wide",  pre |-> <<133, 160, 8232, 12288, 29>>,
                                post |-> <<8202, 8233, 8239, 8287, 30, 31>>],
      [name |-> "fence_json",   pre |-> FENCE \o JSON_TAG \o LF, post |-> LF \o FENCE],
      [name |-> "fence",        pre |-> FENCE \o LF,            post |-> LF \o FENCE],
      [name |-> "fence_json_tight", pre |-> FENCE \o JSON_TAG,  post |-> FENCE],
      [name |-> "fence_tight",  pre |-> FENCE,                  post |-> FENCE],
      [name |-> "fence_prose",
       pre |-> Codes("Here is the verdict:\n") \o FENCE \o JSON_TAG \o LF,
       post |-> LF \o FENCE],
      [name |-> "inline_ticks", pre |-> <<TICK, TICK>>,         post |-> <<TICK, TICK>>] }

\* The wraps that are a fenced code block around the document.
FencedWraps == {"fence_json", "fence", "fence_json_tight", "fence_tight"}

Render(doc, wrap) == wrap.pre \o doc.text \o wrap.post

(***************************************************************************)
(* audio_content_node, lines 118-134: parsing the answer                   *)
(***************************************************************************)
\* The pattern ```(?:json)?(.?)``` anchored at i, re.DOTALL: the alternatives
\* in the order the backtracking matcher tries them (both ? are greedy).
FenceMatchAt(s, i) ==
    IF ~At(s, i, FENCE) THEN [found |-> FALSE, group |-> <<>>]
    ELSE IF At(s, i + 3, JSON_TAG) /\ i + 7 <= Len(s) /\ At(s, i + 8, FENCE)
         THEN [found |-> TRUE, group |-> SubSeq(s, i + 7, i + 7)]
    ELSE IF At(s, i + 3, JSON_TAG) /\ At(s, i + 7, FENCE)
         THEN [found |-> TRUE, group |-> <<>>]
    ELSE IF i + 3 <= Len(s) /\ At(s, i + 4, FENCE)
         THEN [found |-> TRUE, group |-> SubSeq(s, i + 3, i + 3)]
    ELSE IF At(s, i + 3, FENCE)
         THEN [found |-> TRUE, group |-> <<>>]
    ELSE [found |-> FALSE, group |-> <<>>]

\* re.search: the match at the leftmost position that has one.
FenceSearch(s) ==
    LET hits == {i \in 1..Len(s) : FenceMatchAt(s, i).found}
    IN  IF hits = {} THEN [found |-> FALSE, group |-> <<>>]
        ELSE FenceMatchAt(s, CHOOSE i \in hits : \A j \in hits : i <= j)

\* The code points of the JSON text of each object.
JsonTexts == [o \in JsonObjects |-> Codes(Dumps(o))]

\* json.loads on the texts the model can answer with.
JsonLoads(text) ==
    IF \E o \in JsonObjects : JsonTexts[o] = text
    THEN [ok |-> TRUE, type |-> "dict",
          value |-> CHOOSE o \in JsonObjects : JsonTexts[o] = text]
    ELSE IF text = Codes("1") THEN [ok |-> TRUE, type |-> "int", value |-> EmptyDict]
    ELSE IF text = Codes("[]") THEN [ok |-> TRUE, type |-> "list", value |-> EmptyDict]
    ELSE [ok |-> FALSE, type |-> "", value |-> EmptyDict]

JSONDecodeErrorMessage == "Expecting value: line 1 column 1 (char 0)"
NoMatchMessage == "'NoneType' object has no attribute 'group'"
NoGetMessage(type) == "'" \o type \o "' object has no attribute 'get'"

\* The except branch of audio_content_node.
AuditorError(message) == [errors |-> <<message>>, final_status |-> "FAIL"]

\* Whether the fence is looked for at all: "``" in content.
HasFenceMark(content) == Contains(content, <<TICK, TICK>>)

\* Mutant of AuditVerdict: a missing status defaults to PASS.
AuditVerdictDefaultPass(audit_data) ==
    [compliance_results |-> Get(audit_data, "compliance_results", <<>>),
     final_status |-> Get(audit_data, "status", "PASS"),
     final_report |-> Get(audit_data, "final_report", "No report generated")]

\* The dict returned from the parsed answer.
AuditVerdict(audit_data) ==
    [compliance_results |-> Get(audit_data, "compliance_results", <<>>),
     final_status |-> Get(audit_data, "status", "FAIL"),
     final_report |-> Get(audit_data, "final_report", "No report generated")]

\* From response.content to the dict the node returns.
ParseResponse(content) ==
    LET m == FenceSearch(content)
    IN  IF HasFenceMark(content) /\ ~m.found THEN AuditorError(NoMatchMessage)
        ELSE LET body == IF HasFenceMark(content) THEN m.group ELSE content
                 loaded == JsonLoads(Strip(body))
             IN  IF ~loaded.ok THEN AuditorError(JSONDecodeErrorMessage)
                 ELSE IF loaded.type # "dict"
                      THEN AuditorError(NoGetMessage(loaded.type))
                 ELSE AuditVerdict(loaded.value)


(***************************************************************************)
(* The graph state and its update rule                                     *)
(***************************************************************************)
\* Python's None where a string is expected.
None == "None"

\* The keys of VideoAuditState (graph/state.py).
SchemaKeys ==
    {"video_url", "video_id", "transcript", "ocr_text", "video_metadata",
     "compliance_results", "final_status", "final_report", "errors"}

\* The keys whose updates are appended to the previous value.
AppendKeys == {"errors"}

\* The state after a node returned `update`: keys outside the schema are
\* dropped, appended keys are concatenated, the others overwritten.
MergeState(s, update) ==
    LET written == DOMAIN update \cap SchemaKeys
    IN  [k \in DOMAIN s \cup written |->
            IF k \notin written THEN s[k]
            ELSE IF k \in AppendKeys /\ k \in DOMAIN s THEN s[k] \o update[k]
            ELSE update[k]]

\* The same rule for a schema that declares no appended key: every written
\* key takes the value of the update.
MergeStateLastValue(s, update) ==
    LET written == DOMAIN update \cap SchemaKeys
    IN  [k \in DOMAIN s \cup written |->
            IF k \in written THEN update[k] ELSE s[k]]

\* graph/state.py is not among the sources: the states a node's return may
\* leave are those of either rule.
MergedStates(s, update) ==
    {MergeState(s, update), MergeStateLastValue(s, update)}

\* Mutant of EdgeTarget: every edge leads to the auditor, so that the auditor
\* is followed by itself.
EdgeTargetLoops(node) == "auditor"

\* Mutant of EdgeTarget: the edge indexer -> auditor is missing.
EdgeTargetSkipsAuditor(node) == "END"

\* The edges of create_graph: the node that follows `node`.
EdgeTarget(node) == IF node = "indexer" THEN "auditor" ELSE "END"

\* The position at which a node, or END, starts.
PcOf(node) ==
    IF node = "indexer" THEN "construct"
    ELSE IF node = "auditor" THEN "auditor"
    ELSE "return"

(***************************************************************************)
(* VideoIndexerService                                                     *)
(***************************************************************************)
VideoUrls ==
    {"https://www.youtube.com/watch?v=abc", "https://youtu.be/abc",
     "https://vimeo.com/123", ""}

\* Mutant of IsSupportedUrl: any web address is accepted.
IsSupportedUrlAnyHttp(video_url) == Contains(video_url, "http")

\* index_video_node line 26.
IsSupportedUrl(video_url) ==
    Contains(video_url, "youtube.com") \/ Contains(video_url, "youtu.be")

\* The states a status request can answer with.
JobStates == {"Processed", "Failed", "Quarantined", "Processing", "Uploaded"}

PollAnswers == [code : {200, 500}, state : JobStates]

\* Mutant of PollOutcome: the state is compared with "processed", so that a
\* processed video is slept on like an in-progress one.
PollOutcomeMissesProcessed(ans) ==
    IF ans.code # 200 THEN "error"
    ELSE IF ans.state = "processed" THEN "return"
    ELSE IF ans.state = "Failed" THEN "failed"
    ELSE IF ans.state = "Quarantined" THEN "quarantined"
    ELSE "sleep"

\* Mutant of PollOutcome: the Quarantined test is missing, so that a
\* quarantined video is slept on like an in-progress one.
PollOutcomeSleepsOnQuarantined(ans) ==
    IF ans.code # 200 THEN "error"
    ELSE IF ans.state = "Processed" THEN "return"
    ELSE IF ans.state = "Failed" THEN "failed"
    ELSE "sleep"

\* Mutant of PollOutcome: the state of the body is read before the status
\* code is tested.
PollOutcomeReadsStateFirst(ans) ==
    IF ans.state = "Processed" THEN "return"
    ELSE IF ans.state = "Failed" THEN "failed"
    ELSE IF ans.state = "Quarantined" THEN "quarantined"
    ELSE IF ans.code # 200 THEN "error"
    ELSE "sleep"

\* One pass of the loop of wait_for_processing on the answer `ans`.
PollOutcome(ans) ==
    IF ans.code # 200 THEN "error"
    ELSE IF ans.state = "Processed" THEN "return"
    ELSE IF ans.state = "Failed" THEN "failed"
    ELSE IF ans.state = "Quarantined" THEN "quarantined"
    ELSE "sleep"

Fragment(text) == [text |-> text]

Video(transcript, ocr) == [insights |-> [transcript |-> transcript, ocr |-> ocr]]

\* Index payloads the job service may return for a processed video.
Payloads ==
    { \* one video, one spoken sentence, two on-screen fragments
      [state |-> "Processed", id |-> "vi123",
       summarizedInsights |-> [duration |-> "0:00:42"],
       videos |-> << Video(<<Fragment("Our product cures everything")>>,
                           <<Fragment("SALE"), Fragment("50% OFF")>>) >>],
      \* two videos, fragments spread over both
      [state |-> "Processed", id |-> "vi123",
       summarizedInsights |-> EmptyDict,
       videos |-> << Video(<<Fragment("Hello"), Fragment("world")>>, <<Fragment("A")>>),
                     Video(<<Fragment("again")>>, <<Fragment("B")>>) >>],
      \* nothing spoken, text on screen
      [state |-> "Processed", id |-> "vi123",
       videos |-> << Video(<<>>, <<Fragment("SALE")>>) >>],
      \* one spoken fragment with empty text
      [state |-> "Processed", id |-> "vi123",
       videos |-> << Video(<<Fragment("")>>, <<>>) >>],
      \* two spoken fragments without a text key
      [state |-> "Processed", id |-> "vi123",
       videos |-> << Video(<<EmptyDict, EmptyDict>>, <<>>) >>],
      \* a video without insights
      [state |-> "Processed", videos |-> <<EmptyDict>>],
      \* no videos at all
      [state |-> "Processed"] }

RECURSIVE Texts(_, _, _)
\* The text of every `key` item of videos[i..], in document order.
Texts(videos, key, i) ==
    IF i > Len(videos) THEN <<>>
    ELSE LET items == Get(Get(videos[i], "insights", EmptyDict), key, <<>>)
         IN  [n \in 1..Len(items) |-> Get(items[n], "text", "")]
             \o Texts(videos, key, i + 1)

\* VideoIndexerService.extract_data
ExtractData(vi_json) ==
    LET videos == Get(vi_json, "videos", <<>>)
    IN  [transcript |-> Join(" ", Texts(videos, "transcript", 1)),
         ocr_text |-> Texts(videos, "ocr", 1),
         metadata |->
            [duration |-> Get(Get(vi_json, "summarizedInsights", EmptyDict),
                              "duration", None),
             video_id |-> Get(vi_json, "id", None),
             platform |-> "youtube"]]

\* The except branch of index_video_node.
IndexerError(message) ==
    [errors |-> <<message>>, final_status |-> "FAIL",
     transcript |-> "", ocr_text |-> <<>>]

(***************************************************************************)
(* Initial state: audit_video has built initial_inputs                     *)
(***************************************************************************)
\* Line 42: a value of str(uuid.uuid4()).
SessionId == "1a2b3c4d-5e6f-4a7b-8c9d-0e1f2a3b4c5d"

\* Lines 43-50.
InitialInputs(video_url) ==
    [video_url |-> video_url, video_id |-> "vid_" \o SubSeq(SessionId, 1, 8),
     compliance_results |-> <<>>, errors |-> <<>>]

NoCalls == [download |-> 0, upload |-> 0, search |-> 0, llm |-> 0]

NoDoc == [kind |-> "none", obj |-> EmptyDict, text |-> <<>>]
NoWrap == [name |-> "none", pre |-> <<>>, post |-> <<>>]

\* Nothing has been called yet.
NothingDone ==
    /\ service = [vi_token |-> ""]
    /\ azure_video_id = ""
    /\ pollLog = <<>>
    /\ sleeps = 0
    /\ raw_insights = EmptyDict
    /\ calls = NoCalls
    /\ failed_call = ""
    /\ after_indexer = EmptyDict
    /\ entered = <<>>
    /\ llm_doc = NoDoc
    /\ llm_wrap = NoWrap
    /\ llm_content = <<>>
    /\ outcome = "running"
    /\ uploaded = ""
    /\ other_uploaded = ""

\* A request is being served: everything but the file system and the other
\* run.
InitRun ==
    /\ pc = "construct"
    /\ state \in {InitialInputs(u) : u \in VideoUrls}
    /\ response = EmptyDict
    /\ NothingDone

\* server.py lines 32-37: `compliance_results = List[ComplianceIssue]` is an
\* attribute without annotation.  A pydantic that refuses it raises at the
\* class statement: the module is not imported and no request is ever
\* served.
ServerImportError == [kind |-> "PydanticUserError"]

ImportFailed ==
    /\ pc = "import_error"
    /\ state = EmptyDict
    /\ response = ServerImportError
    /\ NothingDone

\* One process: either the server could not be imported, or it serves one
\* request.  A file left by an earlier run whose upload failed may be on disk.
Init ==
    /\ InitRun \/ ImportFailed
    /\ localFile \in {"absent", "stale"}
    /\ other_pc = "idle"


(***************************************************************************)
(* index_video_node                                                        *)
(***************************************************************************)
llmVars == <<llm_doc, llm_wrap, llm_content>>
pollVars == <<pollLog, sleeps, raw_insights>>
otherVars == <<other_pc, other_uploaded>>

\* A node returned: the graph moves along the node's edge.
Leave(node) ==
    /\ pc' = PcOf(EdgeTarget(node))
    /\ outcome' = IF EdgeTarget(node) = "END" THEN "returned" ELSE outcome

\* index_video_node returns `update`.
IndexerReturns(update) ==
    /\ state' \in MergedStates(state, update)
    /\ after_indexer' = state'
    /\ Leave("indexer")

\* Lines 43-50: the exception `message` is caught and turned into state.
IndexerFails(message, call) ==
    /\ IndexerReturns(IndexerError(message))
    /\ failed_call' = call

\* Lines 17-29: the node is entered, the service constructed, the URL checked.
ConstructService ==
    /\ pc = "construct"
    /\ entered' = Append(entered, "indexer")
    /\ \E env_ok \in BOOLEAN :
        IF ~env_ok
        THEN IndexerFails("Missing Azure Video Indexer environment variables",
                          "construct")
        ELSE IF IsSupportedUrl(state["video_url"])
        THEN /\ pc' = "download"
             /\ UNCHANGED <<state, after_indexer, failed_call, outcome>>
        ELSE IndexerFails("Please provide a valid URL for this test.", failed_call)
    /\ UNCHANGED <<localFile, service, azure_video_id, pollVars, calls, llmVars,
                   response, uploaded, otherVars>>

\* Line 27: download_youtube_video.  When it returns, the downloader has
\* written temp_audit_video.mp4, or has left the path as it was: an existing
\* file kept, or no file there (the node does not test what was written).
DownloadVideo ==
    /\ pc = "download"
    /\ calls' = [calls EXCEPT !.download = @ + 1]
    /\ \/ /\ IndexerFails("YouTube download failed: <reason>", "download")
          /\ UNCHANGED localFile
       \/ /\ localFile' \in {"own", localFile}
          /\ pc' = "upload"
          /\ UNCHANGED <<state, after_indexer, failed_call, outcome>>
    /\ UNCHANGED <<service, azure_video_id, pollVars, entered, llmVars, response,
                   uploaded, otherVars>>

\* local_filename of index_video_node (line 22) and the default output_path
\* of download_youtube_video (video_indexer.py:108).
NodeFilename == "temp_audit_video.mp4"
DefaultFilename == "temp_video.mp4"

\* upload_video (with get_account_token, which caches vi_token): what the
\* call does when the token request is answered `token`, the POST `post`, and
\* `file` is at `path`.
UploadResult(vi_token, token, post, file, path) ==
    IF vi_token = "" /\ token = "credential_error"
    THEN [raised |-> TRUE, message |-> "<credential error>",
          call |-> "credential", vi_token |-> vi_token, posts |-> 0]
    ELSE IF vi_token = "" /\ token = "non200"
    THEN [raised |-> TRUE, message |-> "Failed to get VI account token: <body>",
          call |-> "token", vi_token |-> vi_token, posts |-> 0]
    ELSE IF file = "absent"
    THEN [raised |-> TRUE,
          message |-> "[Errno 2] No such file or directory: '" \o path \o "'",
          call |-> "open", vi_token |-> "token", posts |-> 0]
    ELSE IF post = "non200"
    THEN [raised |-> TRUE, message |-> "Upload failed: <body>",
          call |-> "upload", vi_token |-> "token", posts |-> 1]
    ELSE IF post = "no_id"
    THEN [raised |-> TRUE, message |-> "Upload succeeded but no video ID returned",
          call |-> "upload", vi_token |-> "token", posts |-> 1]
    ELSE [raised |-> FALSE, message |-> "", call |-> "",
          vi_token |-> "token", posts |-> 1]

TokenAnswers == {"ok", "credential_error", "non200"}
PostAnswers == {"ok", "non200", "no_id"}

\* Line 31: upload_video: the account token, then the POST of the file.
UploadVideo ==
    /\ pc = "upload"
    /\ \E token \in TokenAnswers, post \in PostAnswers :
        LET r == UploadResult(service.vi_token, token, post, localFile,
                              NodeFilename)
        IN  /\ service' = [service EXCEPT !.vi_token = r.vi_token]
            /\ calls' = [calls EXCEPT !.upload = @ + r.posts]
            /\ IF r.raised
               THEN /\ IndexerFails(r.message, r.call)
                    /\ UNCHANGED <<azure_video_id, uploaded>>
               ELSE /\ azure_video_id' = "vi123"
                    /\ uploaded' = localFile
                    /\ pc' = "remove"
                    /\ UNCHANGED <<state, after_indexer, failed_call, outcome>>
    /\ UNCHANGED <<localFile, pollVars, entered, llmVars, response, otherVars>>

\* Mutant of FileAfterRemove: the file is left on disk.
FileAfterRemoveKept(file) == file

\* Lines 34-35: `if os.path.exists(local_path): os.remove(local_path)`.
FileAfterRemove(file) == "absent"

\* Line 34: `if os.path.exists(local_path)`, once the upload succeeded.
LocalFileExists ==
    /\ pc = "remove"
    /\ pc' = IF localFile # "absent" THEN "unlink" ELSE "poll"
    /\ UNCHANGED <<state, localFile, service, azure_video_id, pollVars, calls,
                   failed_call, after_indexer, entered, llmVars, outcome,
                   response, uploaded, otherVars>>

\* Line 35: os.remove(local_path).  It raises when the file has gone since
\* the test of line 34, which only another run can have done.
RemoveLocalFile ==
    /\ pc = "unlink"
    /\ IF localFile = "absent"
       THEN /\ IndexerFails("[Errno 2] No such file or directory: '"
                                \o NodeFilename \o "'", "unlink")
            /\ UNCHANGED localFile
       ELSE /\ localFile' = FileAfterRemove(localFile)
            /\ pc' = "poll"
            /\ UNCHANGED <<state, after_indexer, failed_call, outcome>>
    /\ UNCHANGED <<service, azure_video_id, pollVars, calls, entered, llmVars,
                   response, uploaded, otherVars>>

\* The exception of a pass that raises (lines 224, 242 and 245).
PollFailure(poll_outcome) ==
    IF poll_outcome = "error"
    THEN [message |-> "Failed to get status: <body>", call |-> "poll"]
    ELSE IF poll_outcome = "failed"
    THEN [message |-> "Video indexing failed", call |-> "job"]
    ELSE [message |-> "Video quarantined", call |-> "job"]

\* Line 229: the payload of an answer whose state is ans.state.
Insights(ans, payload) ==
    [k \in DOMAIN payload \cup {"state"} |->
        IF k = "state" THEN ans.state ELSE payload[k]]

\* Line 37: one pass of the loop of wait_for_processing.
PollPass(ans, log, slept) ==
    /\ pollLog' = log
    /\ \/ /\ PollOutcome(ans) \in {"error", "failed", "quarantined"}
          /\ IndexerFails(PollFailure(PollOutcome(ans)).message,
                          PollFailure(PollOutcome(ans)).call)
          /\ UNCHANGED <<sleeps, raw_insights>>
       \/ /\ PollOutcome(ans) = "return"
          /\ \E payload \in Payloads : raw_insights' = Insights(ans, payload)
          /\ pc' = "extract"
          /\ UNCHANGED <<state, after_indexer, failed_call, outcome, sleeps>>
       \/ /\ PollOutcome(ans) = "sleep"
          /\ sleeps' = slept
          /\ UNCHANGED <<pc, state, after_indexer, failed_call, outcome,
                         raw_insights>>
    /\ UNCHANGED <<localFile, service, azure_video_id, calls, entered, llmVars,
                   response, uploaded, otherVars>>

\* Lines 216-247: the passes of the loop that the log records in full.
PollStatus ==
    /\ pc = "poll"
    /\ Len(pollLog) < MaxPolls
    /\ \E ans \in PollAnswers : PollPass(ans, Append(pollLog, ans), sleeps + 1)

\* Line 216, `while True`: the loop has no attempt counter, so it goes on
\* after MaxPolls passes.  The log then keeps the latest MaxPolls answers and
\* the count of sleeps stays at MaxPolls.
PollBeyond ==
    /\ pc = "poll"
    /\ Len(pollLog) = MaxPolls
    /\ \E ans \in PollAnswers : PollPass(ans, Append(Tail(pollLog), ans), sleeps)

\* Lines 39-41: extract_data, and the node returns clean_data.
ExtractAndReturn ==
    /\ pc = "extract"
    /\ IndexerReturns(ExtractData(raw_insights))
    /\ UNCHANGED <<localFile, service, azure_video_id, pollVars, calls,
                   failed_call, entered, llmVars, response, uploaded, otherVars>>


(***************************************************************************)
(* audio_content_node                                                      *)
(***************************************************************************)
\* Mutant of NoTranscript: `if transcript is None`.
NoTranscriptIsNone(transcript) == transcript = None

\* Line 55: `if not transcript`.
NoTranscript(transcript) == transcript = ""

\* Mutant of SkippedAudit: the skipped audit also returns an errors key.
SkippedAuditWritesErrors ==
    [final_status |-> "FAIL",
     final_report |-> "Audit skipped because video processing failed (No transcript)",
     errors |-> <<>>]

\* Lines 57-60: the dict returned when the audit is skipped.
SkippedAudit ==
    [final_status |-> "FAIL",
     final_report |-> "Audit skipped because video processing failed (No transcript)"]

\* Lines 54, 80 and 108-110: what the node reads from the state for the query
\* and for the user message.
AuditorReads(s) ==
    [video_metadata |-> Get(s, "video_metadata", EmptyDict),
     transcript |-> Get(s, "transcript", ""),
     ocr_text |-> Get(s, "ocr_text", <<>>)]

\* The node returns `update`.
AuditorReturns(update) ==
    /\ state' \in MergedStates(state, update)
    /\ Leave("auditor")

\* An exception leaves the node: compliance_graph.invoke raises.
AuditorRaises(call) ==
    /\ failed_call' = call
    /\ outcome' = "raised"
    /\ pc' = "return"
    /\ UNCHANGED state

AudioContentNode ==
    /\ pc = "auditor"
    /\ entered' = Append(entered, "auditor")
    /\ \/ \* lines 54-60: nothing to audit
          /\ NoTranscript(Get(state, "transcript", ""))
          /\ AuditorReturns(SkippedAudit)
          /\ UNCHANGED <<calls, failed_call, llmVars>>
       \/ \* lines 62-78: building one of the three clients raises
          /\ ~NoTranscript(Get(state, "transcript", ""))
          /\ AuditorRaises("clients")
          /\ UNCHANGED <<calls, llmVars>>
       \/ \* line 82: similarity_search raises
          /\ ~NoTranscript(Get(state, "transcript", ""))
          /\ calls' = [calls EXCEPT !.search = @ + 1]
          /\ AuditorRaises("search")
          /\ UNCHANGED llmVars
       \/ \* line 114: llm.invoke raises, lines 128-134 catch it
          /\ ~NoTranscript(Get(state, "transcript", ""))
          /\ calls' = [calls EXCEPT !.search = @ + 1, !.llm = @ + 1]
          /\ AuditorReturns(AuditorError("<llm error>"))
          /\ failed_call' = "llm"
          /\ UNCHANGED llmVars
       \/ \* lines 114-134: the model answers
          /\ ~NoTranscript(Get(state, "transcript", ""))
          /\ calls' = [calls EXCEPT !.search = @ + 1, !.llm = @ + 1]
          /\ \E doc \in Docs, wrap \in Wraps :
                /\ llm_doc' = doc
                /\ llm_wrap' = wrap
                /\ llm_content' = Render(doc, wrap)
                /\ AuditorReturns(ParseResponse(Render(doc, wrap)))
          /\ UNCHANGED failed_call
    /\ UNCHANGED <<localFile, service, azure_video_id, pollVars, after_indexer,
                   response, uploaded, otherVars>>

(***************************************************************************)
(* audit_video, lines 51-65                                                *)
(***************************************************************************)
\* Lines 53-59, with the class of lines 32-37 where it is accepted: its
\* fields are session_id, video_id, status and final_report.
\* compliance_results is not a field of the class, so that the keyword of
\* line 58 does not reach the response.
AuditResponse(final_state) ==
    [kind |-> "AuditResponse",
     session_id |-> SessionId,
     video_id |-> Get(final_state, "video_id", None),
     status |-> Get(final_state, "final_status", "UNKNOWN"),
     final_report |-> Get(final_state, "final_report", "No report generated")]

\* The three values read from the state are accepted by the str fields.
FieldsAreValid(final_state) ==
    /\ Get(final_state, "video_id", None) # None
    /\ Get(final_state, "final_status", "UNKNOWN") # None
    /\ Get(final_state, "final_report", "No report generated") # None

HTTPException == [kind |-> "HTTPException", status_code |-> 500]

\* Lines 51-65: the try covers invoke and the construction of the response,
\* so that an exception of either is answered with HTTP 500.
AuditVideoReturn ==
    /\ pc = "return"
    /\ response' = IF outcome = "raised" \/ ~FieldsAreValid(state)
                   THEN HTTPException
                   ELSE AuditResponse(state)
    /\ pc' = "done"
    /\ UNCHANGED <<state, localFile, service, azure_video_id, pollVars, calls,
                   failed_call, after_indexer, entered, llmVars, outcome, uploaded,
                   otherVars>>

Next ==
    \/ ConstructService
    \/ DownloadVideo
    \/ UploadVideo
    \/ LocalFileExists
    \/ RemoveLocalFile
    \/ PollStatus
    \/ ExtractAndReturn
    \/ AudioContentNode
    \/ AuditVideoReturn

Spec == Init /\ [][Next]_vars


(***************************************************************************)
(* Two runs at once.  Another request runs index_video_node in a process   *)
(* that shares the working directory, so that its local_filename (line 22) *)
(* is the same path.  Of that run only the steps that touch the file are   *)
(* modelled: it downloads, uploads and removes like lines 27-35.           *)
(***************************************************************************)
runVars == <<pc, state, service, azure_video_id, pollLog, sleeps, raw_insights,
             calls, failed_call, after_indexer, entered, llm_doc, llm_wrap,
             llm_content, outcome, response, uploaded>>

\* Line 27 in the other run.
OtherDownload ==
    /\ other_pc = "download"
    /\ \/ /\ other_pc' = "done"
          /\ UNCHANGED localFile
       \/ /\ localFile' \in {"other", localFile}
          /\ other_pc' = "upload"
    /\ UNCHANGED <<runVars, other_uploaded>>

\* Line 31 in the other run: upload_video opens and posts whatever file is at
\* the path now.
OtherUpload ==
    /\ other_pc = "upload"
    /\ \/ /\ other_pc' = "done"
          /\ UNCHANGED other_uploaded
       \/ /\ localFile # "absent"
          /\ other_uploaded' = localFile
          /\ other_pc' = "remove"
    /\ UNCHANGED <<runVars, localFile>>

\* Line 34 in the other run.
OtherFileExists ==
    /\ other_pc = "remove"
    /\ other_pc' = IF localFile # "absent" THEN "unlink" ELSE "done"
    /\ UNCHANGED <<runVars, localFile, other_uploaded>>

\* Line 35 in the other run; that run fails when the file has gone.
OtherRemove ==
    /\ other_pc = "unlink"
    /\ localFile' = IF localFile = "absent" THEN localFile
                    ELSE FileAfterRemove(localFile)
    /\ other_pc' = "done"
    /\ UNCHANGED <<runVars, other_uploaded>>

\* Both runs start with no file on disk.
InitConcurrent ==
    /\ InitRun
    /\ localFile = "absent"
    /\ other_pc = "download"

NextConcurrent ==
    \/ Next
    \/ OtherDownload
    \/ OtherUpload
    \/ OtherFileExists
    \/ OtherRemove

SpecConcurrent == InitConcurrent /\ [][NextConcurrent]_vars


(***************************************************************************)
(* VideoIndexerService.process_youtube_video, lines 297-314: the pipeline   *)
(* of the service itself, called on a constructed service.  It stages the  *)
(* video at the default output_path, removes nothing, and catches nothing:  *)
(* an exception of a step is the exception of the call.  `response` holds   *)
(* what the call gives its caller.                                          *)
(***************************************************************************)
ProcessRaises(message, call) ==
    /\ response' = [kind |-> "Exception", message |-> message]
    /\ failed_call' = call
    /\ outcome' = "raised"
    /\ pc' = "p_done"

processFrame == <<state, after_indexer, entered, llmVars, otherVars>>

\* Line 299: download_youtube_video(youtube_url).
ProcessDownload ==
    /\ pc = "p_download"
    /\ calls' = [calls EXCEPT !.download = @ + 1]
    /\ \/ /\ ProcessRaises("YouTube download failed: <reason>", "download")
          /\ UNCHANGED localFile
       \/ /\ localFile' \in {"own", localFile}
          /\ pc' = "p_upload"
          /\ UNCHANGED <<response, failed_call, outcome>>
    /\ UNCHANGED <<service, azure_video_id, pollVars, uploaded, processFrame>>

\* Lines 301-306: upload_video(video_path, video_name).
ProcessUpload ==
    /\ pc = "p_upload"
    /\ \E token \in TokenAnswers, post \in PostAnswers :
        LET r == UploadResult(service.vi_token, token, post, localFile,
                              DefaultFilename)
        IN  /\ service' = [service EXCEPT !.vi_token = r.vi_token]
            /\ calls' = [calls EXCEPT !.upload = @ + r.posts]
            /\ IF r.raised
               THEN /\ ProcessRaises(r.message, r.call)
                    /\ UNCHANGED <<azure_video_id, uploaded>>
               ELSE /\ azure_video_id' = "vi123"
                    /\ uploaded' = localFile
                    /\ pc' = "p_poll"
                    /\ UNCHANGED <<response, failed_call, outcome>>
    /\ UNCHANGED <<localFile, pollVars, processFrame>>

\* Line 308: wait_for_processing(video_id), one pass of its loop.
ProcessPoll ==
    /\ pc = "p_poll"
    /\ Len(pollLog) < MaxPolls
    /\ \E ans \in PollAnswers :
        /\ pollLog' = Append(pollLog, ans)
        /\ \/ /\ PollOutcome(ans) \in {"error", "failed", "quarantined"}
              /\ ProcessRaises(PollFailure(PollOutcome(ans)).message,
                               PollFailure(PollOutcome(ans)).call)
              /\ UNCHANGED <<sleeps, raw_insights>>
           \/ /\ PollOutcome(ans) = "return"
              /\ \E payload \in Payloads : raw_insights' = Insights(ans, payload)
              /\ pc' = "p_extract"
              /\ UNCHANGED <<response, failed_call, outcome, sleeps>>
           \/ /\ PollOutcome(ans) = "sleep"
              /\ sleeps' = sleeps + 1
              /\ UNCHANGED <<pc, response, failed_call, outcome, raw_insights>>
    /\ UNCHANGED <<localFile, service, azure_video_id, calls, uploaded,
                   processFrame>>

\* Lines 310-314: extract_data(vi_json), and the result is returned.
ProcessExtract ==
    /\ pc = "p_extract"
    /\ response' = [kind |-> "result", value |-> ExtractData(raw_insights)]
    /\ outcome' = "returned"
    /\ pc' = "p_done"
    /\ UNCHANGED <<localFile, service, azure_video_id, pollVars, calls,
                   failed_call, uploaded, processFrame>>

InitProcess ==
    /\ pc = "p_download"
    /\ state = EmptyDict
    /\ response = EmptyDict
    /\ NothingDone
    /\ localFile \in {"absent", "stale"}
    /\ other_pc = "idle"

NextProcess ==
    \/ ProcessDownload
    \/ ProcessUpload
    \/ ProcessPoll
    \/ ProcessExtract

SpecProcess == InitProcess /\ [][NextProcess]_vars


(***************************************************************************)
(* Properties                                                              *)
(***************************************************************************)
\* compliance_graph.invoke returned a final state (the graph reached END).
Completed == outcome = "returned"

\* The run is over, with a final state or with an exception.
RunEnded == pc \in {"return", "done"}

FinalStatus == Get(state, "final_status", "UNKNOWN")

\* The model was invoked and answered with a document.
ModelAnswered == calls.llm = 1 /\ llm_doc # NoDoc

\* The answer is sent as it is, without a fence.
Unfenced == llm_wrap.name \in {"plain", "padded", "padded_wide"}

\* C1: once a run has completed, final_status is PASS or FAIL, whatever the
\* video, the job service and the language model did.
C1_FinalStatusIsPassOrFail ==
    Completed => FinalStatus \in {"PASS", "FAIL"}

\* C2: the adjudicator is fail-closed.  A completed run has final_status PASS
\* only if the model was invoked and answered a JSON object, parsed without
\* error, whose status key is present and equals PASS; and when the answer
\* parsed to an object, an absent status gives FAIL, an absent
\* compliance_results gives the empty sequence and an absent final_report
\* gives the placeholder "No report generated".
C2_FailClosed ==
    Completed =>
        /\ FinalStatus = "PASS" =>
              /\ ModelAnswered
              /\ state["errors"] = <<>>
              /\ llm_doc.kind = "object"
              /\ "status" \in DOMAIN llm_doc.obj
              /\ llm_doc.obj["status"] = "PASS"
        /\ (ModelAnswered /\ llm_doc.kind = "object" /\ state["errors"] = <<>>) =>
              /\ "status" \notin DOMAIN llm_doc.obj => FinalStatus = "FAIL"
              /\ "compliance_results" \notin DOMAIN llm_doc.obj =>
                    state["compliance_results"] = <<>>
              /\ "final_report" \notin DOMAIN llm_doc.obj =>
                    Get(state, "final_report", "") = "No report generated"

\* C2 witness: the model answered the object {} without a fence, between
\* white space of every kind; it was stripped, parsed, and the run completed
\* with the three defaults.
C2_Witness ==
    /\ Completed
    /\ ModelAnswered
    /\ llm_wrap.name = "padded_wide"
    /\ Strip(llm_content) = Codes("{}")
    /\ state["errors"] = <<>>
    /\ FinalStatus = "FAIL"

\* The extraction stage is over.
ExtractionOver == after_indexer # EmptyDict

\* C3: when the transcript is empty after the extraction stage, whether the
\* stage failed or found nothing spoken, compliance_results stays empty and
\* neither the rule retriever nor the language model is called.
C3_EmptyTranscriptSkipsAudit ==
    (ExtractionOver /\ Get(state, "transcript", "") = "") =>
        /\ state["compliance_results"] = <<>>
        /\ calls.search = 0
        /\ calls.llm = 0

\* C3 witness: extraction succeeded on a payload with nothing spoken, and the
\* auditor node has run.
C3_Witness ==
    /\ pc = "done"
    /\ raw_insights # EmptyDict
    /\ state["errors"] = <<>>
    /\ state["transcript"] = ""
    /\ entered = <<"indexer", "auditor">>

\* C4: in the state of a completed run, final_status PASS implies that
\* compliance_results is empty.
C4_PassImpliesNoIssues ==
    (Completed /\ FinalStatus = "PASS") => state["compliance_results"] = <<>>

\* C5: in the state of a completed run, final_status FAIL implies that
\* compliance_results or errors is non-empty.
C5_FailIsExplained ==
    (Completed /\ FinalStatus = "FAIL") =>
        (state["compliance_results"] # <<>> \/ state["errors"] # <<>>)

\* The final state the run would have had, had the model sent `content`.
StateHadModelSent(content) == MergeState(after_indexer, ParseResponse(content))

VerdictKeys == {"compliance_results", "final_status", "final_report"}

\* C6: a JSON object sent inside a fenced code block gives the same
\* compliance_results, final_status and final_report as the same object sent
\* without the fence, and no parse error is recorded.
C6_FenceIsStripped ==
    (Completed /\ ModelAnswered /\ llm_doc.kind = "object"
        /\ llm_wrap.name \in FencedWraps) =>
        /\ state["errors"] = <<>>
        /\ \A k \in VerdictKeys :
              /\ k \in DOMAIN state <=> k \in DOMAIN StateHadModelSent(llm_doc.text)
              /\ k \in DOMAIN state => state[k] = StateHadModelSent(llm_doc.text)[k]

\* The answer is malformed: no JSON at all, or JSON without a status.
MalformedAnswer ==
    /\ ModelAnswered
    /\ Unfenced
    /\ \/ llm_doc.kind = "other"
       \/ llm_doc.kind = "object" /\ "status" \notin DOMAIN llm_doc.obj

\* C7: a malformed answer never crashes the run: the node returns with
\* final_status FAIL and with a non-empty errors or the default report.
C7_MalformedAnswerIsReported ==
    (RunEnded /\ MalformedAnswer) =>
        /\ Completed
        /\ FinalStatus = "FAIL"
        /\ \/ state["errors"] # <<>>
           \/ Get(state, "final_report", "") = "No report generated"

\* The external calls whose failure each stage is to turn into state.
ExternalCalls == {"construct", "download", "upload", "poll", "search", "llm"}

\* C8: when an external call failed during the run, the run still returns a
\* state with final_status FAIL and a non-empty errors; no exception escapes.
C8_FailuresBecomeState ==
    (RunEnded /\ failed_call \in ExternalCalls) =>
        /\ Completed
        /\ FinalStatus = "FAIL"
        /\ state["errors"] # <<>>

\* index_video_node ended in its except branch.
ExtractionFailed == ExtractionOver /\ after_indexer["errors"] # <<>>

\* C9, as claimed: when extraction fails, the error is recorded, final_status
\* is FAIL, and the adjudication stage is neither entered nor changes the state.
C9_AdjudicationNotEntered ==
    (RunEnded /\ ExtractionFailed) =>
        /\ state["errors"] # <<>>
        /\ FinalStatus = "FAIL"
        /\ entered = <<"indexer">>
        /\ state = after_indexer

\* C9, amended: when extraction fails, the error is recorded and final_status
\* is FAIL; the adjudication stage is still entered, but on the empty
\* transcript it calls neither the retriever nor the model and changes nothing
\* but final_status (FAIL again) and final_report (the fixed "Audit skipped"
\* text); the run then returns.
C9_AdjudicationShortCircuits ==
    (RunEnded /\ ExtractionFailed) =>
        /\ Completed
        /\ Len(state["errors"]) = 1
        /\ FinalStatus = "FAIL"
        /\ entered = <<"indexer", "auditor">>
        /\ calls.search = 0
        /\ calls.llm = 0
        /\ DOMAIN state = DOMAIN after_indexer \cup {"final_report"}
        /\ \A k \in DOMAIN after_indexer \ {"final_report"} :
              state[k] = after_indexer[k]
        /\ state["final_report"]
              = "Audit skipped because video processing failed (No transcript)"

\* C9 witness: a run whose extraction failed has ended, after the auditor ran.
C9_Witness ==
    /\ pc = "done"
    /\ ExtractionFailed
    /\ entered = <<"indexer", "auditor">>

TerminalStates == {"Processed", "Failed", "Quarantined"}

\* The answers are n in-progress states and then Processed, all with HTTP 200.
InProgressThenProcessed(log) ==
    /\ Len(log) >= 1
    /\ \A i \in 1..Len(log) : log[i].code = 200
    /\ \A i \in 1..(Len(log) - 1) : log[i].state \notin TerminalStates
    /\ log[Len(log)].state = "Processed"

\* wait_for_processing returned a payload.
WaitReturned == raw_insights # EmptyDict

\* C10: when the job service answers n in-progress states and then Processed,
\* all with HTTP 200, wait_for_processing returns the Processed payload on
\* request n + 1, after n sleeps, and asks no more; and it returns in no other
\* case.
C10_ReturnsAfterNPolls ==
    /\ \A k \in 1..Len(pollLog) :
          InProgressThenProcessed(SubSeq(pollLog, 1, k)) =>
              /\ k = Len(pollLog)
              /\ WaitReturned
              /\ sleeps = k - 1
              /\ raw_insights["state"] = "Processed"
    /\ WaitReturned => InProgressThenProcessed(pollLog)

\* C10 witness: the case n = 2: two in-progress answers, then Processed.
C10_Witness ==
    /\ WaitReturned
    /\ Len(pollLog) = 3
    /\ sleeps = 2
    /\ pollLog[1].state = "Processing"
    /\ pollLog[2].state = "Uploaded"

FailureStates == {"Failed", "Quarantined"}

FailureMessage(job_state) ==
    IF job_state = "Failed" THEN "Video indexing failed" ELSE "Video quarantined"

\* The indexer is past wait_for_processing.
PollingOver == pc \notin {"poll", "extract"}

\* C11: a poll answered with HTTP 200 and the state Failed or Quarantined is
\* the last status request of the run: wait_for_processing raises the error
\* of that state on that poll, with one sleep for each earlier answer and no
\* payload returned, the indexer records the error, and final_status is FAIL
\* from then on, in the final state too.
C11_TerminalFailureStopsPolling ==
    \A k \in 1..Len(pollLog) :
        (pollLog[k].code = 200 /\ pollLog[k].state \in FailureStates) =>
            /\ k = Len(pollLog)
            /\ PollingOver
            /\ ~WaitReturned
            /\ sleeps = k - 1
            /\ failed_call = "job"
            /\ ExtractionFailed
            /\ after_indexer["final_status"] = "FAIL"
            /\ state["errors"] = <<FailureMessage(pollLog[k].state)>>
            /\ FinalStatus = "FAIL"
            /\ RunEnded => Completed

\* C11 witness: a run has ended whose second poll answered Quarantined, after
\* an in-progress answer.
C11_Witness ==
    /\ pc = "done"
    /\ pollLog = <<[code |-> 200, state |-> "Processing"],
                   [code |-> 200, state |-> "Quarantined"]>>

\* C12: a poll answered with a status code other than 200 is the last status
\* request of the run, whatever state its body names: wait_for_processing
\* raises "Failed to get status" on it, with no sleep after it and no payload
\* returned, the indexer records the error, and the run ends FAIL.
C12_Non200StopsPolling ==
    \A k \in 1..Len(pollLog) :
        pollLog[k].code # 200 =>
            /\ k = Len(pollLog)
            /\ PollingOver
            /\ ~WaitReturned
            /\ sleeps = k - 1
            /\ failed_call = "poll"
            /\ ExtractionFailed
            /\ state["errors"] = <<"Failed to get status: <body>">>
            /\ FinalStatus = "FAIL"
            /\ RunEnded => Completed

\* C12 witness: a run has ended whose second poll answered 500 with a body
\* that names the state Processed.
C12_Witness ==
    /\ pc = "done"
    /\ pollLog = <<[code |-> 200, state |-> "Processing"],
                   [code |-> 500, state |-> "Processed"]>>

\* upload_video returned a video id.
UploadSucceeded == azure_video_id # ""

\* C13: once upload_video succeeded, the local file is removed before the
\* first status request, and it is absent from then on, at the end of the run
\* too, whether the run then succeeds or fails.
C13_StagedFileIsRemoved ==
    /\ (UploadSucceeded /\ pc \notin {"remove", "unlink"}) => localFile = "absent"
    /\ pollLog # <<>> => localFile = "absent"
    /\ (RunEnded /\ UploadSucceeded) => localFile = "absent"

\* C13 witness: a run that uploaded the file it downloaded has ended on a
\* failed status request.
C13_Witness ==
    /\ pc = "done"
    /\ UploadSucceeded
    /\ uploaded = "own"
    /\ failed_call = "poll"

\* C14, as claimed: with two runs at once, a run never finds the other run's
\* file at the path between its download and its removal, never uploads the
\* other run's file, and never finds its file deleted between the test and
\* the removal of lines 34-35.
C14_StagedFilesAreIsolated ==
    /\ pc \in {"upload", "remove", "unlink"} => localFile # "other"
    /\ other_pc \in {"upload", "remove", "unlink"} => localFile # "own"
    /\ uploaded \in {"", "own"}
    /\ other_uploaded \in {"", "other"}
    /\ failed_call # "unlink"

\* C15: within one run the stages are entered in the order indexer, auditor,
\* each at most once; the auditor is entered only after the indexer returned
\* its update; and llm.invoke is called at most once.
C15_StagesInOrderOnce ==
    /\ entered \in {<<>>, <<"indexer">>, <<"indexer", "auditor">>}
    /\ "auditor" \in {entered[i] : i \in 1..Len(entered)} => ExtractionOver
    /\ pc = "auditor" => ExtractionOver
    /\ ~ExtractionOver => (calls.search = 0 /\ calls.llm = 0)
    /\ calls.llm <= 1

\* C15 witness: a run has ended in which both stages ran and the model was
\* invoked.
C15_Witness ==
    /\ pc = "done"
    /\ entered = <<"indexer", "auditor">>
    /\ ~ExtractionFailed
    /\ calls.llm = 1

\* The model's answer could not be turned into a verdict.
Unparsable == ModelAnswered /\ "errors" \in DOMAIN ParseResponse(llm_content)

\* The adjudicator failed on `calls`, or on the answer of the model.
AdjudicationFailedOn(failing) == failed_call \in failing \/ Unparsable

\* The final state is the one the indexer left, but for errors and
\* final_status, which carry the failure of the adjudicator.
OnlyFailureRecorded ==
    /\ Completed
    /\ DOMAIN after_indexer \subseteq DOMAIN state
    /\ \A k \in DOMAIN state \ {"errors", "final_status"} :
          k \in DOMAIN after_indexer /\ state[k] = after_indexer[k]
    /\ state["errors"] # <<>>
    /\ FinalStatus = "FAIL"

\* C16, as claimed: when extraction succeeded and the adjudicator failed on
\* the rule retrieval, on the model call or on an unparsable answer, the run
\* ends with a final state in which everything extraction wrote, and the video
\* reference and video_id, is as extraction left it; only errors and
\* final_status have changed.
C16_NoRollback ==
    (RunEnded /\ ExtractionOver /\ ~ExtractionFailed
        /\ AdjudicationFailedOn({"search", "llm"})) => OnlyFailureRecorded

Errors == Get(state, "errors", <<>>)

IsPrefix(s, t) == Len(s) <= Len(t) /\ SubSeq(t, 1, Len(s)) = s

\* C17: errors is append-only over a run: it is the empty sequence at entry,
\* and after every step it begins with the errors it held before the step, in
\* the same order.  This holds whether the graph appends the errors a node
\* returns or overwrites errors with them: index_video_node writes errors
\* once, onto the empty sequence of the entry, and the auditor that follows a
\* failed extraction returns no errors key.
C17_ErrorsAppendOnly ==
    /\ Errors = <<>>
    /\ [][IsPrefix(Errors, Errors')]_vars

\* C17 witness: a run has ended whose indexer recorded a failed download and
\* whose auditor ran after it; the error is still the only entry.
C17_Witness ==
    /\ pc = "done"
    /\ failed_call = "download"
    /\ entered = <<"indexer", "auditor">>
    /\ Errors = <<"YouTube download failed: <reason>">>
    /\ Get(state, "final_report", "") = SkippedAudit["final_report"]

\* C18, as claimed: after a successful extraction the auditor reads from the
\* state the transcript, the on-screen text and the metadata that extract_data
\* produced from the payload.
C18_AuditorReadsExtraction ==
    (ExtractionOver /\ ~ExtractionFailed) =>
        /\ AuditorReads(after_indexer).transcript
              = ExtractData(raw_insights).transcript
        /\ AuditorReads(after_indexer).ocr_text
              = ExtractData(raw_insights).ocr_text
        /\ AuditorReads(after_indexer).video_metadata
              = ExtractData(raw_insights).metadata

\* The video references of VideoUrls that are not YouTube addresses.
UnsupportedUrls == {"https://vimeo.com/123", ""}

Unsupported == Get(state, "video_url", None) \in UnsupportedUrls

\* Nothing outside the process was asked and no file was written.
NoExternalEffect ==
    /\ calls.download = 0
    /\ calls.upload = 0
    /\ uploaded = ""
    /\ azure_video_id = ""
    /\ pollLog = <<>>
    /\ localFile # "own"

\* The indexer returned a failure with the one error `errors`.
IndexerFailedWith(errors) ==
    /\ ExtractionFailed
    /\ Errors \in errors
    /\ FinalStatus = "FAIL"
    /\ state["transcript"] = ""
    /\ RunEnded => Completed

RejectionMessage == "Please provide a valid URL for this test."

\* C19, as claimed: a run on an unsupported reference makes no download,
\* upload or status poll and creates no local file, and once its indexer is
\* over, errors holds the rejection message, final_status is FAIL and the
\* transcript is empty.
C19_UnsupportedIsRejected ==
    Unsupported =>
        /\ NoExternalEffect
        /\ ExtractionOver => IndexerFailedWith({<<RejectionMessage>>})

\* C19, amended: as above, but the error recorded is the rejection message
\* only when VideoIndexerService was constructed; when its constructor
\* raises, which happens before the reference is tested, the error recorded
\* is the constructor's.
C19_UnsupportedHasNoEffect ==
    Unsupported =>
        /\ NoExternalEffect
        /\ ExtractionOver =>
              IF failed_call = "construct"
              THEN IndexerFailedWith(
                      {<<"Missing Azure Video Indexer environment variables">>})
              ELSE IndexerFailedWith({<<RejectionMessage>>})

\* C19 witness: a run on a Vimeo address has ended with the rejection
\* message.
C19_Witness ==
    /\ pc = "done"
    /\ state["video_url"] = "https://vimeo.com/123"
    /\ Errors = <<RejectionMessage>>

(***************************************************************************)
(* Termination.  The loop of wait_for_processing goes on past MaxPolls      *)
(* passes.  SpecLive takes the fairness most favourable to a run: every     *)
(* call the run makes returns or raises, so that the run takes its next     *)
(* step whenever it has one (the requests of video_indexer.py carry no      *)
(* timeout, so this is assumed, not enforced by the code), and the job      *)
(* service, while it is being polled, eventually gives an answer that       *)
(* settles the job: a terminal state or a status code other than 200.       *)
(***************************************************************************)
Settles(ans) == ans.code # 200 \/ ans.state \in TerminalStates

\* One pass of the loop on an answer that settles the job.
PollSettles ==
    /\ pc = "poll"
    /\ \E ans \in {a \in PollAnswers : Settles(a)} :
          PollPass(ans,
                   IF Len(pollLog) < MaxPolls THEN Append(pollLog, ans)
                   ELSE Append(Tail(pollLog), ans),
                   sleeps)

NextLive ==
    \/ Next
    \/ PollBeyond

SpecLive ==
    /\ Init
    /\ [][NextLive]_vars
    /\ WF_vars(NextLive)
    /\ WF_vars(PollSettles)

LastAnswer == pollLog[Len(pollLog)]

\* The run reached DONE or FAILED: the graph returned a final state.
ReachedDoneOrFailed == pc = "done" /\ Completed

\* C20, as claimed: the loop has no attempt cap: as long as the latest answer
\* does not settle the job the run is in the loop and another pass is
\* possible, however many passes there were; the run leaves the loop exactly
\* on an answer that settles the job; and if the service eventually gives
\* such an answer, every run that started reaches DONE or FAILED, that is,
\* ends with a final state.
C20_EndsWhenServiceSettles ==
    /\ [](pollLog # <<>> => (pc = "poll" <=> ~Settles(LastAnswer)))
    /\ [](pc = "poll" => ENABLED (PollStatus \/ PollBeyond))
    /\ (pc = "construct") ~> ReachedDoneOrFailed

====
